---- MODULE Spec2Model ----
(***************************************************************************)
(* Model of aws-codepipeline-publish-nodejs-modules:                       *)
(*   - the commit filter function (handler) that starts the pipeline       *)
(*     unless the commit message carries "[skip ci]";                      *)
(*   - the pipeline that PkgPipeline's constructor composes                *)
(*     (Source, Lint, Test, Publish) and the release commit that the       *)
(*     Publish stage pushes back;                                          *)
(*   - PkgPipeline's constructor itself (validation, command defaulting,   *)
(*     resources added to the construct tree).                             *)
(***************************************************************************)
EXTENDS Integers, Sequences, FiniteSets, TLC

\* ---------------------------------------------------------------- bounds
MaxInvocations == 2
MaxCommits == 3
MaxSupplied == 1

\* ------------------------------------------------------- optional values
\* JavaScript's undefined, and a defined value v
Undefined == [defined |-> FALSE]
Def(v) == [defined |-> TRUE, value |-> v]

\* a slip: only undefined is rejected, "" passes
FalsyString_undefinedOnly(s) == ~s.defined

\* !s for an optional string: undefined and "" are falsy
FalsyString(s) == (~s.defined) \/ s.value = ""

\* ------------------------------------------------------------ strings
\* A commit message is a sequence of characters.
Marker == <<"[", "s", "k", "i", "p", " ", "c", "i", "]">>

\* a slip: the needle is looked for at the start of hay only
includes_startOnly(hay, needle) ==
    /\ Len(needle) <= Len(hay)
    /\ SubSeq(hay, 1, Len(needle)) = needle

\* String.prototype.includes: needle occurs at some position of hay
includes(hay, needle) ==
    \E i \in 1..(Len(hay) + 1) :
        /\ i + Len(needle) - 1 <= Len(hay)
        /\ SubSeq(hay, i, i + Len(needle) - 1) = needle

\* !commit?.message?.includes("[skip ci]")
shouldTrigger(commit) ==
    ~ ( /\ commit.defined
        /\ commit.value.message.defined
        /\ includes(commit.value.message.value, Marker) )

\* ------------------------------------------------------------ messages
MsgEmpty == <<>>
MsgFeat == <<"f", "e", "a", "t">>
MsgRelease == <<"v", "1", " ">> \o Marker \o <<"\n", "n">>
MsgUpper == <<"[", "S", "K", "I", "P", " ", "C", "I", "]">>
MsgTruncated == <<"p", "r", "e">> \o SubSeq(Marker, 2, 9)
Messages == {MsgEmpty, MsgFeat, Marker, MsgRelease, MsgUpper, MsgTruncated}

\* a commit object as GetCommit returns it: message is optional
CommitObjects == {[message |-> Undefined]} \cup {[message |-> Def(m)] : m \in Messages}
\* GetCommitOutput: the commit member is optional
GetCommitOutputs == {Undefined} \cup {Def(c) : c \in CommitObjects}

\* what the repository holds under a commit id
NotFound == [exists |-> FALSE]
Found(output) == [exists |-> TRUE, commit |-> output]
StoreValues == {NotFound} \cup {Found(o) : o \in GetCommitOutputs}

RepoName == "test"
PipelineName == "test"
CommitIds == 1..MaxCommits
\* the commits the events of direct invocations name
GateCommitIds == {1, 2}
InvIds == 1..MaxInvocations

Branches == {"main", "dev"}

\* env: process.env of the function; store: the repository's commits;
\* inv, reqs: the handler invocations and the requests each has sent;
\* executions: the pipeline's executions; pushed, events: the commits pushed
\* and the reference events not yet delivered; props: the constructor's
\* argument; given: the command objects as the caller built them; heap: the
\* same objects as they are now; ctor: the constructor's locals and its tree
VARIABLES env, store, inv, reqs, executions, pushed, events, props, given, heap, ctor

vars == <<env, store, inv, reqs, executions, pushed, events, props, given, heap, ctor>>

IdleInv == [pc |-> "idle", event |-> Undefined, commit |-> Undefined, error |-> ""]

ConfigurationError == "process.env.PIPELINE_NAME is undefined"
LookupErrors == {"CommitDoesNotExistException", "ServiceUnavailable"}
StartErrors == {"PipelineNotFoundException", "ThrottlingException"}

\* a slip: the event's repository name is sent, with the commit as an extra member
StartPipelineExecutionCommand_repo(pipelineName) ==
    [api |-> "StartPipelineExecution", input |-> [name |-> RepoName, clientRequestToken |-> "t"]]

\* the request the handler builds for StartPipelineExecution
StartPipelineExecutionCommand(pipelineName) ==
    [api |-> "StartPipelineExecution", input |-> [name |-> pipelineName]]

GetCommitCommand(repositoryName, commitId) ==
    [api |-> "GetCommit", input |-> [repositoryName |-> repositoryName, commitId |-> commitId]]

\* a slip: the start request is sent together with the lookup (Promise.all)
handlerStart_parallel(i, event) ==
    LET pipelineName == env.PIPELINE_NAME IN
    IF FalsyString(pipelineName)
    THEN /\ inv' = [inv EXCEPT ![i] = [@ EXCEPT !.pc = "failed", !.event = Def(event),
                                                 !.error = ConfigurationError]]
         /\ UNCHANGED reqs
    ELSE /\ inv' = [inv EXCEPT ![i] = [@ EXCEPT !.pc = "awaitGetCommit", !.event = Def(event)]]
         /\ reqs' = [reqs EXCEPT ![i] = <<StartPipelineExecutionCommand(pipelineName.value),
                                          GetCommitCommand(event.detail.repositoryName,
                                                           event.detail.commitId)>>]

\* handler, up to its first await: the configuration check and the lookup request
handlerStart(i, event) ==
    LET pipelineName == env.PIPELINE_NAME IN
    IF FalsyString(pipelineName)
    THEN /\ inv' = [inv EXCEPT ![i] = [@ EXCEPT !.pc = "failed", !.event = Def(event),
                                                 !.error = ConfigurationError]]
         /\ UNCHANGED reqs
    ELSE /\ inv' = [inv EXCEPT ![i] = [@ EXCEPT !.pc = "awaitGetCommit", !.event = Def(event)]]
         /\ reqs' = [reqs EXCEPT ![i] = Append(@, GetCommitCommand(event.detail.repositoryName,
                                                                    event.detail.commitId))]

\* a slip: no start is asked for while another invocation's start is pending
handlerAfterGetCommit_oneAtATime(i, commit) ==
    IF shouldTrigger(commit) /\ ~\E j \in DOMAIN inv : j # i /\ inv[j].pc = "awaitStart"
    THEN /\ inv' = [inv EXCEPT ![i] = [@ EXCEPT !.pc = "awaitStart", !.commit = commit]]
         /\ reqs' = [reqs EXCEPT ![i] = Append(@, StartPipelineExecutionCommand(env.PIPELINE_NAME.value))]
    ELSE /\ inv' = [inv EXCEPT ![i] = [@ EXCEPT !.pc = "skipped", !.commit = commit]]
         /\ UNCHANGED reqs

\* a slip: the decision also looks at the event's reference name
handlerAfterGetCommit_branchAware(i, commit) ==
    IF shouldTrigger(commit) /\ inv[i].event.value.detail.referenceName = "main"
    THEN /\ inv' = [inv EXCEPT ![i] = [@ EXCEPT !.pc = "awaitStart", !.commit = commit]]
         /\ reqs' = [reqs EXCEPT ![i] = Append(@, StartPipelineExecutionCommand(env.PIPELINE_NAME.value))]
    ELSE /\ inv' = [inv EXCEPT ![i] = [@ EXCEPT !.pc = "skipped", !.commit = commit]]
         /\ UNCHANGED reqs

\* a slip: the start request is sent once more for good measure
handlerAfterGetCommit_startedTwice(i, commit) ==
    IF shouldTrigger(commit)
    THEN /\ inv' = [inv EXCEPT ![i] = [@ EXCEPT !.pc = "awaitStart", !.commit = commit]]
         /\ reqs' = [reqs EXCEPT ![i] = @ \o <<StartPipelineExecutionCommand(env.PIPELINE_NAME.value),
                                               StartPipelineExecutionCommand(env.PIPELINE_NAME.value)>>]
    ELSE /\ inv' = [inv EXCEPT ![i] = [@ EXCEPT !.pc = "skipped", !.commit = commit]]
         /\ UNCHANGED reqs

\* a slip: a commit some invocation already asked a start for is not started again
handlerAfterGetCommit_deduplicated(i, commit) ==
    IF shouldTrigger(commit)
       /\ ~\E j \in DOMAIN inv :
              /\ j # i
              /\ inv[j].event = inv[i].event
              /\ \E k \in 1..Len(reqs[j]) : reqs[j][k].api = "StartPipelineExecution"
    THEN /\ inv' = [inv EXCEPT ![i] = [@ EXCEPT !.pc = "awaitStart", !.commit = commit]]
         /\ reqs' = [reqs EXCEPT ![i] = Append(@, StartPipelineExecutionCommand(env.PIPELINE_NAME.value))]
    ELSE /\ inv' = [inv EXCEPT ![i] = [@ EXCEPT !.pc = "skipped", !.commit = commit]]
         /\ UNCHANGED reqs

\* handler, resumed with the lookup's output: the marker test and the start request
handlerAfterGetCommit(i, commit) ==
    IF shouldTrigger(commit)
    THEN /\ inv' = [inv EXCEPT ![i] = [@ EXCEPT !.pc = "awaitStart", !.commit = commit]]
         /\ reqs' = [reqs EXCEPT ![i] = Append(@, StartPipelineExecutionCommand(env.PIPELINE_NAME.value))]
    ELSE /\ inv' = [inv EXCEPT ![i] = [@ EXCEPT !.pc = "skipped", !.commit = commit]]
         /\ UNCHANGED reqs

\* lowest invocation that has not been used yet
nextInv == CHOOSE i \in InvIds : inv[i].pc = "idle" /\ \A j \in InvIds : j < i => inv[j].pc # "idle"

\* the detail of a CodeCommit reference event; referenceName is one of the
\* fields the handler does not read
ChangeEvent(repositoryName, commitId, referenceName) ==
    [detail |-> [repositoryName |-> repositoryName, commitId |-> commitId,
                 referenceName |-> referenceName]]

\* a pipeline execution as CodePipeline creates it: first stage in progress
NewExecution(startedBy) ==
    [startedBy |-> startedBy, stage |-> 1, status |-> "InProgress", log |-> <<>>]

\* ------------------------------------------------ commit filter function
\* the function is invoked directly with an arbitrary event (also a replay)
Invoke ==
    /\ \E i \in InvIds : inv[i].pc = "idle"
    /\ \E c \in GateCommitIds, b \in Branches :
           handlerStart(nextInv, ChangeEvent(RepoName, c, b))
    /\ UNCHANGED <<env, store, executions, pushed, events, props, given, heap, ctor>>

\* CodeCommit answers the lookup with what the repository holds
GetCommitOk ==
    \E i \in InvIds :
        /\ inv[i].pc = "awaitGetCommit"
        /\ LET input == reqs[i][Len(reqs[i])].input IN
           /\ input.repositoryName = RepoName
           /\ store[input.commitId].exists
           /\ handlerAfterGetCommit(i, store[input.commitId].commit)
        /\ UNCHANGED <<env, store, executions, pushed, events, props, given, heap, ctor>>

\* a slip: the rejection is caught and the handler goes on without a commit
GetCommitErr_swallowed ==
    \E i \in InvIds :
        /\ inv[i].pc = "awaitGetCommit"
        /\ handlerAfterGetCommit(i, Undefined)
        /\ UNCHANGED <<env, store, executions, pushed, events, props, given, heap, ctor>>

\* the lookup fails; the rejection of ccClient.send leaves the handler
GetCommitErr ==
    \E i \in InvIds, err \in LookupErrors :
        /\ inv[i].pc = "awaitGetCommit"
        /\ LET input == reqs[i][Len(reqs[i])].input IN
           (err = "CommitDoesNotExistException") <=> ~store[input.commitId].exists
        /\ inv' = [inv EXCEPT ![i] = [@ EXCEPT !.pc = "failed", !.error = err]]
        /\ UNCHANGED <<env, store, reqs, executions, pushed, events, props, given, heap, ctor>>

\* CodePipeline accepts the start request and creates an execution
StartOk ==
    \E i \in InvIds :
        /\ inv[i].pc = "awaitStart"
        /\ reqs[i][Len(reqs[i])].input.name = PipelineName
        /\ inv' = [inv EXCEPT ![i] = [@ EXCEPT !.pc = "started"]]
        /\ executions' = Append(executions, NewExecution(i))
        /\ UNCHANGED <<env, store, reqs, pushed, events, props, given, heap, ctor>>

\* a slip: the failed start request is sent again
StartErr_retried ==
    \E i \in InvIds :
        /\ inv[i].pc = "awaitStart"
        /\ Len(reqs[i]) < 3
        /\ reqs' = [reqs EXCEPT ![i] = Append(@, reqs[i][Len(reqs[i])])]
        /\ UNCHANGED <<env, store, inv, executions, pushed, events, props, given, heap, ctor>>

\* the start request fails; the rejection of cpClient.send leaves the handler
StartErr ==
    \E i \in InvIds, err \in StartErrors :
        /\ inv[i].pc = "awaitStart"
        /\ (err = "PipelineNotFoundException") <=> (reqs[i][Len(reqs[i])].input.name # PipelineName)
        /\ inv' = [inv EXCEPT ![i] = [@ EXCEPT !.pc = "failed", !.error = err]]
        /\ UNCHANGED <<env, store, reqs, executions, pushed, events, props, given, heap, ctor>>

\* ------------------------------------------------ PkgPipeline constructor
Phases == {"install", "pre_build", "build", "post_build"}
\* a commands object with every phase omitted
EmptyCommands == [install |-> Undefined, pre_build |-> Undefined,
                  build |-> Undefined, post_build |-> Undefined]
\* objects the caller may pass as lintCommands / releaseCommands / testCommands
ObjIds == {"o1", "o2", "o3"}
\* objects the destructuring defaults create
DefaultIds == {"d_lint", "d_release", "d_test"}
EmptyHeap == [o \in ObjIds \cup DefaultIds |-> EmptyCommands]

\* String(x) inside a template literal
str(x) == IF x.defined THEN x.value ELSE "undefined"

defaultBuildCommands == <<"npm run build">>
defaultLintCommands == <<"npm run lint">>
defaultReleaseCommands == <<"npx semantic-release">>
defaultTestCommands == <<"npm run test">>
defaultGlobalPreBuildCommands == <<"npm install">>
defaultReleaseBranch == "main"
defaultGlobalInstallCommands(p) ==
    << "npm install -g npm@7",
       "aws codeartifact login --tool npm --domain " \o str(p.codeArtifactDomain)
         \o " --repository " \o str(p.codeArtifactRepo)
         \o " --namespace " \o str(p.codeArtifactNamespace) >>

\* destructuring with a default: the default applies to undefined only
orDefault(x, d) == IF x.defined THEN x.value ELSE d

InitCtor ==
    [pc |-> "new", error |-> "",
     globalInstallCommands |-> <<>>, globalPreBuildCommands |-> <<>>,
     releaseBranch |-> "", name |-> "",
     lintCommands |-> "", releaseCommands |-> "", testCommands |-> "",
     tree |-> <<>>, entry |-> "", fnEnv |-> {}, fnPolicy |-> {},
     rule |-> Undefined, pipelineName |-> Undefined, stages |-> <<>>,
     lintProject |-> Undefined, testProject |-> Undefined, publishProject |-> Undefined]

ValidationError == "codeArtifactDomain, codeArtifactRepo, and codeArtifactNamespace must be defined"

\* a slip: the names are validated after the repository was created
ctorValidate_afterRepository(c, p) ==
    LET c1 == [c EXCEPT !.globalInstallCommands =
                            orDefault(p.globalInstallCommands, defaultGlobalInstallCommands(p)),
                        !.globalPreBuildCommands =
                            orDefault(p.globalPreBuildCommands, defaultGlobalPreBuildCommands),
                        !.name = str(p.name),
                        !.releaseBranch = orDefault(p.releaseBranch, defaultReleaseBranch)]
    IN IF FalsyString(p.codeArtifactDomain) \/ FalsyString(p.codeArtifactRepo)
            \/ FalsyString(p.codeArtifactNamespace)
       THEN [c1 EXCEPT !.pc = "threw", !.error = ValidationError, !.tree = <<"Repository">>]
       ELSE [c1 EXCEPT !.pc = "defaults"]

\* a slip: the namespace test lost its negation
ctorValidate_namespaceNegationLost(c, p) ==
    LET c1 == [c EXCEPT !.globalInstallCommands =
                            orDefault(p.globalInstallCommands, defaultGlobalInstallCommands(p)),
                        !.globalPreBuildCommands =
                            orDefault(p.globalPreBuildCommands, defaultGlobalPreBuildCommands),
                        !.name = str(p.name),
                        !.releaseBranch = orDefault(p.releaseBranch, defaultReleaseBranch)]
    IN IF FalsyString(p.codeArtifactDomain) \/ FalsyString(p.codeArtifactRepo)
            \/ ~FalsyString(p.codeArtifactNamespace)
       THEN [c1 EXCEPT !.pc = "threw", !.error = ValidationError]
       ELSE [c1 EXCEPT !.pc = "defaults"]

\* lines 125-144: destructure the props, then validate the CodeArtifact names
ctorValidate(c, p) ==
    LET c1 == [c EXCEPT !.globalInstallCommands =
                            orDefault(p.globalInstallCommands, defaultGlobalInstallCommands(p)),
                        !.globalPreBuildCommands =
                            orDefault(p.globalPreBuildCommands, defaultGlobalPreBuildCommands),
                        !.name = str(p.name),
                        !.releaseBranch = orDefault(p.releaseBranch, defaultReleaseBranch)]
    IN IF FalsyString(p.codeArtifactDomain) \/ FalsyString(p.codeArtifactRepo)
            \/ FalsyString(p.codeArtifactNamespace)
       THEN [c1 EXCEPT !.pc = "threw", !.error = ValidationError]
       ELSE [c1 EXCEPT !.pc = "defaults"]

\* lines 149-166: the three command objects, the caller's or a fresh default
ctorCommandRefs(c, p) ==
    [c EXCEPT !.lintCommands = orDefault(p.lintCommands, "d_lint"),
              !.releaseCommands = orDefault(p.releaseCommands, "d_release"),
              !.testCommands = orDefault(p.testCommands, "d_test"),
              !.pc = "repository"]

\* the default objects of lines 150-165, allocated only when the prop is omitted
heapAllocDefaults(c, p, h) ==
    [o \in DOMAIN h |->
        IF o = "d_lint" /\ ~p.lintCommands.defined
        THEN [install |-> Def(c.globalInstallCommands), pre_build |-> Def(c.globalPreBuildCommands),
              build |-> Def(defaultLintCommands), post_build |-> Undefined]
        ELSE IF o = "d_release" /\ ~p.releaseCommands.defined
        THEN [install |-> Def(c.globalInstallCommands), pre_build |-> Def(c.globalPreBuildCommands),
              build |-> Def(defaultBuildCommands), post_build |-> Def(defaultReleaseCommands)]
        ELSE IF o = "d_test" /\ ~p.testCommands.defined
        THEN [install |-> Def(c.globalInstallCommands), pre_build |-> Def(c.globalPreBuildCommands),
              build |-> Def(defaultTestCommands), post_build |-> Undefined]
        ELSE h[o]]

\* if (!cmd.phase) cmd.phase = v : an assignment to the object itself
setIfMissing(h, o, phase, v) ==
    IF h[o][phase].defined THEN h ELSE [h EXCEPT ![o][phase] = Def(v)]

\* lines 167-176, in program order
heapDefaultCommands(c, h) ==
    LET l == c.lintCommands
        r == c.releaseCommands
        t == c.testCommands
        gi == c.globalInstallCommands
        gp == c.globalPreBuildCommands
        h1 == setIfMissing(setIfMissing(h, l, "install", gi), l, "pre_build", gp)
        h2 == setIfMissing(setIfMissing(h1, r, "install", gi), r, "pre_build", gp)
        h3 == setIfMissing(setIfMissing(h2, t, "install", gi), t, "pre_build", gp)
        h4 == setIfMissing(h3, l, "build", defaultLintCommands)
        h5 == setIfMissing(h4, r, "build", defaultBuildCommands)
        h6 == setIfMissing(h5, r, "post_build", defaultReleaseCommands)
    IN setIfMissing(h6, t, "build", defaultTestCommands)

addToTree(c, id) == [c EXCEPT !.tree = Append(@, id)]

\* lines 178-181
addRepository(c) == [addToTree(c, "Repository") EXCEPT !.pc = "commitFilterFn"]

\* lines 185-205; tsExists is existsSync(tsPath)
addCommitFilterFn(c, tsExists) ==
    [addToTree(c, "CommitFilterFn") EXCEPT
        !.entry = IF tsExists THEN "commitFilterFn.ts" ELSE "commitFilterFn.js",
        !.fnEnv = {"NODE_OPTIONS", "REGION"},
        !.fnPolicy = {"codecommit:GetCommit"},
        !.pc = "onCommit"]

\* lines 206-209
onCommit(c) ==
    [addToTree(c, "CommitToMain") EXCEPT
        !.rule = Def([branches |-> {"main"}, target |-> "CommitFilterFn"]),
        !.pc = "pipeline"]

\* lines 210-219
addPipeline(c) ==
    [addToTree(c, "Pipeline") EXCEPT
        !.pipelineName = Def(c.name),
        !.fnEnv = @ \cup {"PIPELINE_NAME"},
        !.fnPolicy = @ \cup {"codepipeline:StartPipelineExecution"},
        !.pc = "sourceStage"]

\* a slip: the new stage is put in front of the existing ones
addStage_inFront(c, stage) == [c EXCEPT !.stages = <<stage>> \o @]

\* pipeline.addStage appends the stage after the existing ones
addStage(c, stage) == [c EXCEPT !.stages = Append(@, stage)]

\* a slip: the Source action keeps CodeCommit's default trigger
addSourceStage_defaultTrigger(c) ==
    [addStage(c, [stageName |-> "Source", action |-> "CodeCommit",
                  branch |-> c.releaseBranch, trigger |-> "EVENTS"])
        EXCEPT !.pc = "lintStage"]

\* lines 221-233
addSourceStage(c) ==
    [addStage(c, [stageName |-> "Source", action |-> "CodeCommit",
                  branch |-> c.releaseBranch, trigger |-> "NONE"])
        EXCEPT !.pc = "lintStage"]

\* lines 235-269
addLintStage(c, h) ==
    [addStage(addToTree(c, "LintPipelineProject"),
              [stageName |-> "Lint", action |-> "Lint", branch |-> "", trigger |-> ""])
        EXCEPT !.lintProject = Def([install |-> h[c.lintCommands].install,
                                    pre_build |-> h[c.lintCommands].pre_build,
                                    build |-> h[c.lintCommands].build]),
               !.pc = "testStage"]

\* lines 271-305
addTestStage(c, h) ==
    [addStage(addToTree(c, "TestPipelineProject"),
              [stageName |-> "Test", action |-> "Test", branch |-> "", trigger |-> ""])
        EXCEPT !.testProject = Def([install |-> h[c.testCommands].install,
                                    pre_build |-> h[c.testCommands].pre_build,
                                    build |-> h[c.testCommands].build]),
               !.pc = "publishStage"]

\* lines 307-374
addPublishStage(c, h) ==
    [addStage(addToTree(c, "PublishPipelineProject"),
              [stageName |-> "Publish", action |-> "Publish", branch |-> "", trigger |-> ""])
        EXCEPT !.publishProject = Def([install |-> h[c.releaseCommands].install,
                                       pre_build |-> h[c.releaseCommands].pre_build,
                                       build |-> h[c.releaseCommands].build,
                                       post_build |-> h[c.releaseCommands].post_build]),
               !.pc = "output"]

\* lines 375-378
addOutput(c) == [addToTree(c, "PipelineNameOutput") EXCEPT !.pc = "done"]

\* the whole constructor on valid props (lines 123-378)
constructor(p, h, tsExists) ==
    LET c1 == ctorCommandRefs(ctorValidate(InitCtor, p), p)
        h1 == heapDefaultCommands(c1, heapAllocDefaults(c1, p, h))
        c2 == addSourceStage(addPipeline(onCommit(addCommitFilterFn(addRepository(c1), tsExists))))
    IN addOutput(addPublishStage(addTestStage(addLintStage(c2, h1), h1), h1))

\* the command objects as the constructor leaves them
constructedHeap(p, h) ==
    LET c1 == ctorCommandRefs(ctorValidate(InitCtor, p), p)
    IN heapDefaultCommands(c1, heapAllocDefaults(c1, p, h))

\* ----- constructor inputs
RequiredDomain == {Undefined, Def(""), Def("test-domain")}
RequiredRepo == {Undefined, Def(""), Def("test-repo")}
RequiredNamespace == {Undefined, Def(""), Def("@test-namespace")}
GlobalLists == {Undefined, Def(<<"npm ci">>)}
SuppliedLists == {<<>>, <<"custom">>}
ReleaseBranches == {Undefined, Def("dev")}

\* the props of the repository's test: every optional prop omitted
TestProps ==
    [name |-> Def("test"), codeArtifactDomain |-> Def("test-domain"),
     codeArtifactRepo |-> Def("test-repo"), codeArtifactNamespace |-> Def("@test-namespace"),
     lintCommands |-> Undefined, releaseCommands |-> Undefined, testCommands |-> Undefined,
     globalInstallCommands |-> Undefined, globalPreBuildCommands |-> Undefined,
     releaseBranch |-> Undefined]

\* command object references; the same object may be passed for several props
CommandRefs ==
    {r \in [lintCommands : {Undefined, Def("o1")},
            releaseCommands : {Undefined, Def("o1"), Def("o2")},
            testCommands : {Undefined, Def("o1"), Def("o2"), Def("o3")}] :
        LET used == {x.value : x \in {y \in {r.lintCommands, r.releaseCommands, r.testCommands} : y.defined}}
        IN /\ "o2" \in used => "o1" \in used
           /\ "o3" \in used => "o2" \in used}

PropsSet ==
    {[TestProps EXCEPT !.codeArtifactDomain = d, !.codeArtifactRepo = r,
                       !.codeArtifactNamespace = n,
                       !.globalInstallCommands = gi, !.globalPreBuildCommands = gp,
                       !.releaseBranch = rb,
                       !.lintCommands = refs.lintCommands,
                       !.releaseCommands = refs.releaseCommands,
                       !.testCommands = refs.testCommands] :
        d \in RequiredDomain, r \in RequiredRepo, n \in RequiredNamespace,
        gi \in GlobalLists, gp \in GlobalLists, rb \in ReleaseBranches, refs \in CommandRefs}

\* heaps with at most n phases supplied over the caller's objects
RECURSIVE HeapsWith(_)
HeapsWith(n) ==
    IF n = 0 THEN {EmptyHeap}
    ELSE LET H == HeapsWith(n - 1)
         IN H \cup {[h EXCEPT ![o][ph] = Def(l)] :
                        h \in H, o \in ObjIds, ph \in Phases, l \in SuppliedLists}

referenced(p) ==
    {x.value : x \in {y \in {p.lintCommands, p.releaseCommands, p.testCommands} : y.defined}}

\* ----- constructor steps
CtorValidate ==
    /\ ctor.pc = "new"
    /\ ctor' = ctorValidate(ctor, props)
    /\ UNCHANGED <<env, store, inv, reqs, executions, pushed, events, props, given, heap>>

CtorCommands ==
    /\ ctor.pc = "defaults"
    /\ ctor' = ctorCommandRefs(ctor, props)
    /\ heap' = heapDefaultCommands(ctor', heapAllocDefaults(ctor', props, heap))
    /\ UNCHANGED <<env, store, inv, reqs, executions, pushed, events, props, given>>

CtorRepository ==
    /\ ctor.pc = "repository"
    /\ ctor' = addRepository(ctor)
    /\ UNCHANGED <<env, store, inv, reqs, executions, pushed, events, props, given, heap>>

CtorCommitFilterFn ==
    /\ ctor.pc = "commitFilterFn"
    /\ \E tsExists \in BOOLEAN : ctor' = addCommitFilterFn(ctor, tsExists)
    /\ UNCHANGED <<env, store, inv, reqs, executions, pushed, events, props, given, heap>>

CtorOnCommit ==
    /\ ctor.pc = "onCommit"
    /\ ctor' = onCommit(ctor)
    /\ UNCHANGED <<env, store, inv, reqs, executions, pushed, events, props, given, heap>>

CtorPipeline ==
    /\ ctor.pc = "pipeline"
    /\ ctor' = addPipeline(ctor)
    /\ UNCHANGED <<env, store, inv, reqs, executions, pushed, events, props, given, heap>>

CtorSourceStage ==
    /\ ctor.pc = "sourceStage"
    /\ ctor' = addSourceStage(ctor)
    /\ UNCHANGED <<env, store, inv, reqs, executions, pushed, events, props, given, heap>>

CtorLintStage ==
    /\ ctor.pc = "lintStage"
    /\ ctor' = addLintStage(ctor, heap)
    /\ UNCHANGED <<env, store, inv, reqs, executions, pushed, events, props, given, heap>>

CtorTestStage ==
    /\ ctor.pc = "testStage"
    /\ ctor' = addTestStage(ctor, heap)
    /\ UNCHANGED <<env, store, inv, reqs, executions, pushed, events, props, given, heap>>

CtorPublishStage ==
    /\ ctor.pc = "publishStage"
    /\ ctor' = addPublishStage(ctor, heap)
    /\ UNCHANGED <<env, store, inv, reqs, executions, pushed, events, props, given, heap>>

CtorOutput ==
    /\ ctor.pc = "output"
    /\ ctor' = addOutput(ctor)
    /\ UNCHANGED <<env, store, inv, reqs, executions, pushed, events, props, given, heap>>

\* ------------------------------------------------------ deployed system
\* the commit semantic-release pushes: "@semantic-release/git" with its
\* default message, which carries the marker
ReleaseMessage == MsgRelease
UserMessages == {MsgFeat, MsgRelease}

\* a commit reaches the repository: CodeCommit stores it and emits the
\* reference event; the onCommit rule forwards it when the branch matches;
\* a Source action with an automatic trigger would start an execution itself
push(branch, by, msg, execs) ==
    LET id == Len(pushed) + 1
        source == ctor.stages[1]
    IN /\ store' = [store EXCEPT ![id] = Found(Def([message |-> Def(msg)]))]
       /\ pushed' = Append(pushed, [branch |-> branch, by |-> by])
       /\ events' = IF branch \in ctor.rule.value.branches
                    THEN Append(events, ChangeEvent(ctor.name, id, branch))
                    ELSE events
       /\ executions' = IF source.trigger # "NONE" /\ branch = source.branch
                        THEN Append(execs, NewExecution(0))
                        ELSE execs

UserPush ==
    /\ Len(pushed) < MaxCommits
    /\ \E b \in Branches, m \in UserMessages : push(b, "user", m, executions)
    /\ UNCHANGED <<env, inv, reqs, props, given, heap, ctor>>

\* EventBridge invokes the function with the oldest pending event
Deliver ==
    /\ events # <<>>
    /\ \E i \in InvIds : inv[i].pc = "idle"
    /\ handlerStart(nextInv, Head(events))
    /\ events' = Tail(events)
    /\ UNCHANGED <<env, store, executions, pushed, props, given, heap, ctor>>

\* the current stage of execution e ends; the Publish stage may have pushed
\* a release commit to the branch it was cloned from
stageEnds(e, ok, released) ==
    LET x == executions[e]
        st == ctor.stages[x.stage]
        x1 == [x EXCEPT !.log = Append(@, [stage |-> st.stageName,
                                           result |-> IF ok THEN "Succeeded" ELSE "Failed"]),
                        !.status = IF ~ok THEN "Failed"
                                   ELSE IF x.stage = Len(ctor.stages) THEN "Succeeded"
                                   ELSE "InProgress",
                        !.stage = IF ok /\ x.stage < Len(ctor.stages) THEN @ + 1 ELSE @]
        execs == [executions EXCEPT ![e] = x1]
    IN /\ x.status = "InProgress"
       /\ released => (st.stageName = "Publish" /\ Len(pushed) < MaxCommits)
       /\ IF released
          THEN push(ctor.stages[1].branch, "release", ReleaseMessage, execs)
          ELSE executions' = execs /\ UNCHANGED <<store, pushed, events>>
       /\ UNCHANGED <<env, inv, reqs, props, given, heap, ctor>>

StageSucceeds ==
    \E e \in 1..Len(executions), released \in BOOLEAN : stageEnds(e, TRUE, released)

StageFails ==
    \E e \in 1..Len(executions), released \in BOOLEAN : stageEnds(e, FALSE, released)

\* ---------------------------------------------------------- specifications
EmptyStore == [c \in CommitIds |-> NotFound]

InitGate ==
    /\ env \in [PIPELINE_NAME : {Undefined, Def(""), Def(PipelineName), Def("other")}]
    /\ store \in {st \in [CommitIds -> StoreValues] :
                      \A c \in CommitIds \ GateCommitIds : st[c] = NotFound}
    /\ inv = [i \in InvIds |-> IdleInv]
    /\ reqs = [i \in InvIds |-> <<>>]
    /\ executions = <<>>
    /\ pushed = <<>>
    /\ events = <<>>
    /\ props = TestProps
    /\ given = EmptyHeap
    /\ heap = EmptyHeap
    /\ ctor = InitCtor

NextGate == Invoke \/ GetCommitOk \/ GetCommitErr \/ StartOk \/ StartErr

SpecGate == InitGate /\ [][NextGate]_vars

InitSynth ==
    /\ props \in PropsSet
    /\ given \in {h \in HeapsWith(MaxSupplied) :
                    \A o \in ObjIds : o \notin referenced(props) => h[o] = EmptyCommands}
    /\ heap = given
    /\ ctor = InitCtor
    /\ env = [PIPELINE_NAME |-> Undefined]
    /\ store = EmptyStore
    /\ inv = [i \in InvIds |-> IdleInv]
    /\ reqs = [i \in InvIds |-> <<>>]
    /\ executions = <<>>
    /\ pushed = <<>>
    /\ events = <<>>

NextSynth ==
    \/ CtorValidate \/ CtorCommands \/ CtorRepository \/ CtorCommitFilterFn
    \/ CtorOnCommit \/ CtorPipeline \/ CtorSourceStage \/ CtorLintStage
    \/ CtorTestStage \/ CtorPublishStage \/ CtorOutput

SpecSynth == InitSynth /\ [][NextSynth]_vars

\* the stack of the repository's test, deployed: the function's environment
\* carries the pipeline's name (line 213)
InitSystem ==
    /\ \E rb \in ReleaseBranches :
         /\ props = [TestProps EXCEPT !.releaseBranch = rb]
         /\ ctor = constructor(props, EmptyHeap, TRUE)
         /\ given = EmptyHeap
         /\ heap = constructedHeap(props, EmptyHeap)
    /\ env = [PIPELINE_NAME |-> ctor.pipelineName]
    /\ store = EmptyStore
    /\ inv = [i \in InvIds |-> IdleInv]
    /\ reqs = [i \in InvIds |-> <<>>]
    /\ executions = <<>>
    /\ pushed = <<>>
    /\ events = <<>>

NextSystem ==
    \/ UserPush \/ Deliver \/ GetCommitOk \/ GetCommitErr \/ StartOk \/ StartErr
    \/ StageSucceeds \/ StageFails

SpecSystem == InitSystem /\ [][NextSystem]_vars

\* ------------------------------------------------------------ properties
\* number of requests of one api an invocation has sent
sent(i, api) == Cardinality({k \in 1..Len(reqs[i]) : reqs[i][k].api = api})

\* the marker occurs in m, character by character
markerAt(m, k) ==
    /\ k + 9 <= Len(m)
    /\ m[k + 1] = "[" /\ m[k + 2] = "s" /\ m[k + 3] = "k" /\ m[k + 4] = "i" /\ m[k + 5] = "p"
    /\ m[k + 6] = " " /\ m[k + 7] = "c" /\ m[k + 8] = "i" /\ m[k + 9] = "]"
hasMarker(m) == \E k \in 0..Len(m) : markerAt(m, k)

\* the invocation's lookup has returned an output
lookedUp(i) ==
    \/ inv[i].pc \in {"awaitStart", "skipped", "started"}
    \/ inv[i].pc = "failed" /\ inv[i].error \in StartErrors

\* the output's commit message carries the marker
markedCommit(i) ==
    /\ lookedUp(i)
    /\ inv[i].commit.defined
    /\ inv[i].commit.value.message.defined
    /\ hasMarker(inv[i].commit.value.message.value)

\* C1: an invocation whose lookup returned a commit message containing
\* "[skip ci]" at any position has sent no StartPipelineExecution request
\* and has completed as a successful no-op.
C1_MarkerSkips ==
    \A i \in InvIds :
        markedCommit(i) => sent(i, "StartPipelineExecution") = 0 /\ inv[i].pc = "skipped"

\* the marker in the middle of the message, and in another invocation at its start
C1_Witness ==
    \E i, j \in InvIds :
        /\ inv[i].pc = "skipped" /\ inv[i].commit = Def([message |-> Def(MsgRelease)])
        /\ inv[j].pc = "skipped" /\ inv[j].commit = Def([message |-> Def(Marker)])

\* C2: an invocation whose lookup returned an output without the marker
\* (empty message, no message, no commit object included) has sent exactly
\* one StartPipelineExecution request, whose input is the pipeline name
\* alone, equal to PIPELINE_NAME.
C2_UnmarkedStartsOnce ==
    \A i \in InvIds :
        (lookedUp(i) /\ ~markedCommit(i)) =>
            /\ sent(i, "StartPipelineExecution") = 1
            /\ LET r == reqs[i][Len(reqs[i])]
               IN /\ r.api = "StartPipelineExecution"
                  /\ DOMAIN r.input = {"name"}
                  /\ r.input.name = env.PIPELINE_NAME.value

\* no commit object in one invocation, no message in another, and a
\* pipeline name that differs from the repository's
C2_Witness ==
    /\ env.PIPELINE_NAME = Def("other")
    /\ \E i, j \in InvIds :
        /\ inv[i].pc = "awaitStart" /\ inv[i].commit = Undefined
        /\ inv[j].pc = "awaitStart" /\ inv[j].commit = Def([message |-> Undefined])

\* C4: with PIPELINE_NAME unset or "", an invocation fails with the
\* configuration error and has sent no request at all, neither GetCommit
\* nor StartPipelineExecution.
C4_MissingPipelineNameFailsFirst ==
    (env.PIPELINE_NAME = Undefined \/ env.PIPELINE_NAME = Def("")) =>
        \A i \in InvIds :
            inv[i].pc # "idle" =>
                /\ inv[i].pc = "failed"
                /\ inv[i].error = ConfigurationError
                /\ reqs[i] = <<>>

C4_Witness ==
    /\ env.PIPELINE_NAME = Def("")
    /\ \A i \in InvIds : inv[i].pc = "failed" /\ inv[i].error = ConfigurationError

\* C5: the step in which the lookup fails ends the invocation as failed
\* with the lookup's error; the invocation has sent one GetCommit request
\* and no StartPipelineExecution request, and this stays so.
C5_LookupFailurePropagates ==
    [][ /\ GetCommitErr =>
            \A i \in InvIds :
                inv'[i] # inv[i] =>
                    /\ inv'[i].pc = "failed"
                    /\ inv'[i].error \in LookupErrors
        /\ \A i \in InvIds :
              (inv'[i].pc = "failed" /\ inv'[i].error \in LookupErrors) =>
                  /\ sent(i, "GetCommit")' = 1
                  /\ sent(i, "StartPipelineExecution")' = 0 ]_vars

\* a missing commit in one invocation, a transient failure on a commit that
\* would have been started in the other
C5_Witness ==
    \E i, j \in InvIds :
        /\ inv[i].pc = "failed" /\ inv[i].error = "CommitDoesNotExistException"
        /\ inv[j].pc = "failed" /\ inv[j].error = "ServiceUnavailable"
        /\ store[inv[j].event.value.detail.commitId] = Found(Def([message |-> Def(MsgFeat)]))

\* C6: the step in which the start request fails ends the invocation as
\* failed with that error after exactly one StartPipelineExecution request;
\* a failed invocation never becomes a successful one.
C6_StartFailurePropagates ==
    [][ /\ StartErr =>
            \A i \in InvIds :
                (inv[i].pc = "awaitStart" /\ (inv'[i] # inv[i] \/ reqs'[i] # reqs[i])) =>
                    /\ inv'[i].pc = "failed"
                    /\ inv'[i].error \in StartErrors
        /\ \A i \in InvIds :
              /\ inv[i].pc = "failed" => (inv'[i] = inv[i] /\ reqs'[i] = reqs[i])
              /\ (inv'[i].pc = "failed" /\ inv'[i].error \in StartErrors) =>
                    /\ sent(i, "StartPipelineExecution")' = 1
                    /\ \A e \in 1..Len(executions') : executions'[e].startedBy # i ]_vars

C6_Witness ==
    \E i, j \in InvIds :
        /\ inv[i].pc = "failed" /\ inv[i].error = "ThrottlingException"
        /\ sent(i, "StartPipelineExecution") = 1
        /\ inv[j].pc = "started"

\* the invocations that were given event ev, looked the commit up and found no marker
unmarkedInvocations(ev) ==
    {i \in InvIds : inv[i].event = Def(ev) /\ lookedUp(i) /\ ~markedCommit(i)}

\* C7: for every event, the invocations that were given it and found a
\* commit without the marker have together sent as many start requests as
\* there are such invocations: a replay is not suppressed.
C7_ReplayStartsAgain ==
    \A i \in InvIds :
        inv[i].event.defined =>
            LET S == unmarkedInvocations(inv[i].event.value)
            IN Cardinality(UNION {{<<j, k>> : k \in {n \in 1..Len(reqs[j]) :
                                      reqs[j][n].api = "StartPipelineExecution"}} : j \in S})
                   = Cardinality(S)

\* the same event twice, and two executions
C7_Witness ==
    \E i, j \in InvIds :
        /\ i # j
        /\ inv[i].event = inv[j].event
        /\ inv[i].pc = "started" /\ inv[j].pc = "started"
        /\ Len(executions) = 2

\* the commit an invocation was given
commitOf(i) == inv[i].event.value.detail.commitId
messageOf(c) == store[c].commit.value.message.value
inFlight(i) == inv[i].pc \in {"awaitGetCommit", "awaitStart"}
\* the user's commits to main that carry no marker
unmarkedUserCommits ==
    {c \in 1..Len(pushed) :
        pushed[c].by = "user" /\ pushed[c].branch = "main" /\ ~hasMarker(messageOf(c))}

\* C3: in the deployed system every execution was started by a gate
\* invocation, for a user's commit without the marker, and no commit has
\* started two; the invocation for a release commit sends no start request;
\* an invocation that completed as started has one execution; once no event
\* is pending and no invocation is in flight or has failed, there are as
\* many executions as unmarked user commits to main.
C3_ReleaseCommitDoesNotRetrigger ==
    /\ \A e \in 1..Len(executions) :
          /\ executions[e].startedBy \in InvIds
          /\ inv[executions[e].startedBy].pc = "started"
          /\ commitOf(executions[e].startedBy) \in unmarkedUserCommits
          /\ \A f \in 1..Len(executions) :
                commitOf(executions[f].startedBy) = commitOf(executions[e].startedBy) => f = e
    /\ \A i \in InvIds :
          /\ (inv[i].pc # "idle" /\ pushed[commitOf(i)].by = "release") =>
                /\ sent(i, "StartPipelineExecution") = 0
                /\ inv[i].pc \in {"awaitGetCommit", "skipped", "failed"}
          /\ inv[i].pc = "started" =>
                Cardinality({e \in 1..Len(executions) : executions[e].startedBy = i}) = 1
    /\ ( /\ events = <<>>
         /\ \A i \in InvIds : ~inFlight(i) /\ inv[i].pc # "failed" )
       => Len(executions) = Cardinality(unmarkedUserCommits)

\* one user commit, its execution through Publish, the release commit on
\* main, and the release commit's event absorbed by the gate
C3_Witness ==
    /\ Len(pushed) = 2
    /\ pushed[1].by = "user" /\ pushed[2].by = "release" /\ pushed[2].branch = "main"
    /\ Len(executions) = 1 /\ executions[1].status = "Succeeded"
    /\ events = <<>>
    /\ \E i \in InvIds : commitOf(i) = 2 /\ inv[i].pc = "skipped"

StageOrder == <<"Source", "Lint", "Test", "Publish">>

\* C8: every execution has run its stages in the order Source, Lint, Test,
\* Publish: a stage is entered only when all stages before it succeeded, so
\* Publish is entered only after Lint and Test succeeded, and an execution
\* with a failed stage has stopped there.
C8_StagesInOrder ==
    \A e \in 1..Len(executions) :
        LET x == executions[e]
            n == Len(x.log)
        IN /\ n <= 4
           /\ \A k \in 1..n : x.log[k].stage = StageOrder[k]
           /\ \A k \in 1..(n - 1) : x.log[k].result = "Succeeded"
           /\ x.status = "InProgress" =>
                 /\ n < 4
                 /\ x.stage = n + 1
                 /\ ctor.stages[x.stage].stageName = StageOrder[n + 1]
                 /\ \A k \in 1..n : x.log[k].result = "Succeeded"
           /\ x.status = "Failed" => (n >= 1 /\ x.log[n].result = "Failed")
           /\ x.status = "Succeeded" => (n = 4 /\ x.log[4].result = "Succeeded")
           /\ (\E k \in 1..n : x.log[k].stage \in {"Lint", "Test"} /\ x.log[k].result = "Failed") =>
                 /\ x.status = "Failed"
                 /\ \A k \in 1..n : x.log[k].stage # "Publish"

\* one execution in its Publish stage, another stopped by a failed Test stage
C8_Witness ==
    \E e, f \in 1..Len(executions) :
        /\ executions[e].status = "InProgress"
        /\ ctor.stages[executions[e].stage].stageName = "Publish"
        /\ executions[f].status = "Failed"
        /\ executions[f].log[Len(executions[f].log)].stage = "Test"

\* the list the caller supplied for a phase, or else the default
suppliedOr(ref, phase, default) ==
    IF ref.defined /\ given[ref.value][phase].defined
    THEN Def(given[ref.value][phase].value)
    ELSE Def(default)

\* C9: the phases of each build project are the caller's list where one was
\* supplied and otherwise the documented default: the global install and
\* pre_build commands, "npm run lint" / "npm run test" / "npm run build"
\* for build, and "npx semantic-release" for the release post_build.
C9_PhasesSuppliedOrDefault ==
    /\ ctor.lintProject.defined =>
          /\ ctor.lintProject.value.install
               = suppliedOr(props.lintCommands, "install", ctor.globalInstallCommands)
          /\ ctor.lintProject.value.pre_build
               = suppliedOr(props.lintCommands, "pre_build", ctor.globalPreBuildCommands)
          /\ ctor.lintProject.value.build
               = suppliedOr(props.lintCommands, "build", <<"npm run lint">>)
    /\ ctor.testProject.defined =>
          /\ ctor.testProject.value.install
               = suppliedOr(props.testCommands, "install", ctor.globalInstallCommands)
          /\ ctor.testProject.value.pre_build
               = suppliedOr(props.testCommands, "pre_build", ctor.globalPreBuildCommands)
          /\ ctor.testProject.value.build
               = suppliedOr(props.testCommands, "build", <<"npm run test">>)
    /\ ctor.publishProject.defined =>
          /\ ctor.publishProject.value.install
               = suppliedOr(props.releaseCommands, "install", ctor.globalInstallCommands)
          /\ ctor.publishProject.value.pre_build
               = suppliedOr(props.releaseCommands, "pre_build", ctor.globalPreBuildCommands)
          /\ ctor.publishProject.value.build
               = suppliedOr(props.releaseCommands, "build", <<"npm run build">>)
          /\ ctor.publishProject.value.post_build
               = suppliedOr(props.releaseCommands, "post_build", <<"npx semantic-release">>)

\* every optional prop omitted, the three CodeArtifact names non-empty
requiredOnly ==
    /\ ~FalsyString(props.codeArtifactDomain)
    /\ ~FalsyString(props.codeArtifactRepo)
    /\ ~FalsyString(props.codeArtifactNamespace)
    /\ props.name.defined
    /\ \A f \in {"lintCommands", "releaseCommands", "testCommands", "globalInstallCommands",
                 "globalPreBuildCommands", "releaseBranch"} : props[f] = Undefined

treeIds == {ctor.tree[k] : k \in 1..Len(ctor.tree)}

\* C10: with the required props and nothing else the constructor never
\* throws, and when it has returned the construct tree holds the
\* repository, the commit filter function, the pipeline and the three
\* build projects, so the template's Resources are defined.
C10_RequiredPropsSuffice ==
    requiredOnly =>
        /\ ctor.pc # "threw"
        /\ ctor.pc = "done" =>
              {"Repository", "CommitFilterFn", "Pipeline", "LintPipelineProject",
               "TestPipelineProject", "PublishPipelineProject"} \subseteq treeIds

C10_Witness == requiredOnly /\ props = TestProps /\ ctor.pc = "done" /\ Len(ctor.tree) = 8

\* C11: in every reachable state, whatever the invocation's position or
\* outcome, it has sent at most one StartPipelineExecution request; an
\* invocation that ended skipped, with the configuration error or with a
\* lookup error has sent none.
C11_AtMostOneStart ==
    \A i \in InvIds :
        /\ sent(i, "StartPipelineExecution") <= 1
        /\ inv[i].pc \in {"idle", "awaitGetCommit", "skipped"} => sent(i, "StartPipelineExecution") = 0
        /\ (inv[i].pc = "failed" /\ inv[i].error \notin StartErrors) =>
               sent(i, "StartPipelineExecution") = 0

\* one invocation started, the other skipped
C11_Witness ==
    \E i, j \in InvIds :
        /\ inv[i].pc = "started" /\ sent(i, "StartPipelineExecution") = 1
        /\ inv[j].pc = "skipped" /\ sent(j, "StartPipelineExecution") = 0

\* C12: the two calls of an invocation are sequential: the lookup request
\* is the first request, a start request is the second and last, and a
\* start request is sent only in the step in which the lookup returns its
\* output; while the lookup is awaited no start request is out.
C12_LookupThenStart ==
    [][ \A i \in InvIds :
          /\ sent(i, "StartPipelineExecution")' > sent(i, "StartPipelineExecution") =>
                /\ inv[i].pc = "awaitGetCommit"
                /\ inv'[i].pc = "awaitStart"
                /\ store[reqs[i][1].input.commitId].exists
                /\ inv'[i].commit = store[reqs[i][1].input.commitId].commit
          /\ inv'[i].pc = "awaitGetCommit" =>
                (Len(reqs'[i]) = 1 /\ reqs'[i][1].api = "GetCommit")
          /\ inv'[i].pc = "awaitStart" =>
                /\ Len(reqs'[i]) = 2
                /\ reqs'[i][1].api = "GetCommit"
                /\ reqs'[i][2].api = "StartPipelineExecution" ]_vars

\* both requests out, in order, after a lookup that returned a commit
C12_Witness ==
    \E i \in InvIds :
        /\ inv[i].pc = "awaitStart"
        /\ inv[i].commit = Def([message |-> Def(MsgFeat)])
        /\ Len(reqs[i]) = 2 /\ reqs[i][1].api = "GetCommit"
        /\ \E j \in InvIds : inv[j].pc = "awaitGetCommit"

\* all start requests sent so far, as (invocation, position) pairs
startRequests ==
    UNION {{<<i, k>> : k \in {n \in 1..Len(reqs[i]) : reqs[i][n].api = "StartPipelineExecution"}} :
              i \in InvIds}

\* C13: under every interleaving a step of one invocation leaves every
\* other invocation and its requests untouched; the step in which a lookup
\* returns decides by the invocation's own commit alone (marker: skipped,
\* no marker: start requested), whatever the other invocations are doing;
\* so the start requests sent are as many as the invocations that found no
\* marker, and an invocation that found the marker has sent none.
C13_InvocationsIndependent ==
    [][ /\ \A i, j \in InvIds :
              (i # j /\ (inv'[i] # inv[i] \/ reqs'[i] # reqs[i])) =>
                  (inv'[j] = inv[j] /\ reqs'[j] = reqs[j])
        /\ \A i \in InvIds :
              (inv[i].pc = "awaitGetCommit" /\ lookedUp(i)') =>
                  LET out == store[reqs[i][1].input.commitId].commit
                      marked == out.defined /\ out.value.message.defined
                                   /\ hasMarker(out.value.message.value)
                  IN /\ inv'[i].pc = IF marked THEN "skipped" ELSE "awaitStart"
                     /\ sent(i, "StartPipelineExecution")' = IF marked THEN 0 ELSE 1
        /\ Cardinality(startRequests')
              = Cardinality({i \in InvIds : lookedUp(i)' /\ ~markedCommit(i)'}) ]_vars

\* two invocations with their start requests pending at the same time
C13_Witness ==
    /\ \A i \in InvIds : inv[i].pc = "awaitStart"
    /\ Cardinality(startRequests) = Cardinality(InvIds)
    /\ executions = <<>>

\* C14: the decision is a function of the fetched message alone: two
\* invocations that were returned the same output (in particular two whose
\* events name the same repository and commit) have decided alike whatever
\* else their events carry; an invocation has skipped exactly when the
\* message contains the marker with its exact characters, so the case
\* variant "[SKIP CI]" and the marker without its "[" are started.
C14_DecisionByMessageOnly ==
    /\ \A i, j \in InvIds :
          ( /\ lookedUp(i) /\ lookedUp(j)
            /\ \/ inv[i].commit = inv[j].commit
               \/ /\ inv[i].event.value.detail.repositoryName
                        = inv[j].event.value.detail.repositoryName
                  /\ commitOf(i) = commitOf(j) )
          => /\ (inv[i].pc = "skipped") = (inv[j].pc = "skipped")
             /\ sent(i, "StartPipelineExecution") = sent(j, "StartPipelineExecution")
    /\ \A i \in InvIds :
          lookedUp(i) =>
              /\ (inv[i].pc = "skipped") = markedCommit(i)
              /\ inv[i].commit \in {Def([message |-> Def(MsgUpper)]),
                                    Def([message |-> Def(MsgTruncated)])} =>
                     (inv[i].pc # "skipped" /\ sent(i, "StartPipelineExecution") = 1)

\* the same commit, carrying "[SKIP CI]", reported for two different
\* references: both invocations ask for a start
C14_Witness ==
    \E i, j \in InvIds :
        /\ inv[i].pc = "awaitStart" /\ inv[j].pc = "started"
        /\ commitOf(i) = commitOf(j)
        /\ inv[i].event.value.detail.referenceName = "main"
        /\ inv[j].event.value.detail.referenceName = "dev"
        /\ inv[i].commit = Def([message |-> Def(MsgUpper)])

\* the commits whose event the function has been or will be invoked with
gateCommits ==
    {events[k].detail.commitId : k \in 1..Len(events)}
        \cup {inv[i].event.value.detail.commitId : i \in {j \in InvIds : inv[j].pc # "idle"}}

\* C15: the commits that invoke the commit filter function are the commits
\* to the branch the Source stage reads: a pushed commit has an event for
\* the function exactly when its branch is the release branch.
C15_RuleBranchIsReleaseBranch ==
    \A c \in 1..Len(pushed) :
        (pushed[c].branch = ctor.stages[1].branch) = (c \in gateCommits)

missing(x) == x = Undefined \/ x = Def("")

\* C16: with codeArtifactDomain, codeArtifactRepo or codeArtifactNamespace
\* undefined or "", the constructor throws the validation error in its
\* first step, with nothing in the construct tree and no rule, pipeline,
\* stage or build project made.
C16_MissingNameThrowsFirst ==
    ( \/ missing(props.codeArtifactDomain)
      \/ missing(props.codeArtifactRepo)
      \/ missing(props.codeArtifactNamespace) ) =>
        /\ ctor.pc \in {"new", "threw"}
        /\ ctor.tree = <<>>
        /\ ctor.stages = <<>>
        /\ ~ctor.rule.defined /\ ~ctor.pipelineName.defined
        /\ ~ctor.lintProject.defined /\ ~ctor.testProject.defined /\ ~ctor.publishProject.defined
        /\ ctor.pc = "threw" => ctor.error = ValidationError

\* only the namespace is "", and the constructor has thrown
C16_Witness ==
    /\ props.codeArtifactNamespace = Def("")
    /\ props.codeArtifactDomain = Def("test-domain")
    /\ props.codeArtifactRepo = Def("test-repo")
    /\ ctor.pc = "threw"
    /\ ctor.tree = <<>>

\* the post_build list of a project, if it has that phase
carriesPostBuild(project, ref) ==
    (project.defined /\ ref.defined /\ given[ref.value].post_build.defined) =>
        /\ "post_build" \in DOMAIN project.value
        /\ project.value.post_build = Def(given[ref.value].post_build.value)

\* C17: a post_build list supplied in lintCommands, testCommands or
\* releaseCommands is the post_build phase of the Lint, Test or Publish
\* project.
C17_PostBuildCarried ==
    /\ carriesPostBuild(ctor.lintProject, props.lintCommands)
    /\ carriesPostBuild(ctor.testProject, props.testCommands)
    /\ carriesPostBuild(ctor.publishProject, props.releaseCommands)

====
